---- MODULE Spec2Model ----
(***************************************************************************)
(* The immutable fluent QueryBuilder of @sequelize/core                    *)
(* (packages/core/src/expression-builders/query-builder.ts) as a state     *)
(* machine: a heap of builder instances, the caller's argument objects     *)
(* the builders hold by reference, and one action per public method.       *)
(* The SELECT generator the builder delegates to (queryGenerator           *)
(* .selectQuery) is modelled from the specification's sections 4.1-4.3.    *)
(* SQL text is a sequence of tokens.                                       *)
(*                                                                         *)
(*   Spec              instances created, branched from and rendered       *)
(*   SpecObserved      Spec, with an observer remembering a getQuery call  *)
(*   SpecChain         one builder reassigned along a chain of any length  *)
(*   SpecLegacy        SpecChain for the class without pagination          *)
(*   SpecWhere         one builder, a where object of nested combinators   *)
(*   SpecProjection    one builder, an attribute array of any columns      *)
(*   SpecExecute       SpecChain of a caller that awaits execute()         *)
(*   SpecChainObserved SpecChain, a failed getQuery call remembered        *)
(*   SpecBranches      a base builder and the chains derived from it       *)
(*   SpecAliased       SpecBranches, the caller changes its arguments      *)
(*   SpecNumeric       one builder given any number as limit, offset       *)
(*   SpecBoolean       one builder, a where object of boolean operands     *)
(*   SpecTwice         a builder, and a setter called on it twice and once *)
(***************************************************************************)
EXTENDS Integers, Sequences, FiniteSets, TLC

VARIABLES
  builders,   \* the QueryBuilder instances, by identity (index)
  hist,       \* hist[i]: the calls that produced builder i, oldest first
  attrHeap,   \* the caller's attribute arrays, by reference
  whereHeap,  \* the caller's where objects, by reference
  dialect,    \* the dialect of the Sequelize instance
  out,        \* the last call: method, receiver, returned instance, result
  seen,       \* one earlier getQuery call an observer remembers
  exec        \* the execute() call in flight, or the one that just settled

vars == <<builders, hist, attrHeap, whereHeap, dialect, out, seen, exec>>

\* ------------------------------------------------------------ bounds
\* Number of QueryBuilder instances a behaviour may create.
MaxBuilders == 3

\* ------------------------------------------------------------ values
\* An optional field: <<>> is `undefined`, <<v>> is a value.
Undefined == <<>>
Some(v) == <<v>>
IsSet(o) == o # Undefined
\* The reference `null`; the references of objects are 1, 2, ...
NullRef == 0

\* ------------------------------------------------------------ models
ModelNames == {"User", "Post"}

\* The models the tests define: name (the alias), table, primary key.
ModelDef(m) ==
  IF m = "User"
  THEN [name |-> "User", tableName |-> "users", primaryKey |-> "id"]
  ELSE [name |-> "Post", tableName |-> "posts", primaryKey |-> "id"]

\* ------------------------------------------------------------ dialects
DialectNames == {"postgres", "mssql"}

\* Dialect Descriptor: identifier quotes, boolean literals, string prefix,
\* pagination style.  "booleanAsInteger" is the dialect of the
\* specification's second end-to-end example, which quotes as the first
\* does and has no native boolean type.
DialectDef(d) ==
  CASE d = "postgres" ->
         [open |-> "\"", close |-> "\"", true |-> "true", false |-> "false",
          stringPrefix |-> "", paginationStyle |-> "LIMIT_OFFSET"]
    [] d = "booleanAsInteger" ->
         [open |-> "\"", close |-> "\"", true |-> "1", false |-> "0",
          stringPrefix |-> "", paginationStyle |-> "LIMIT_OFFSET"]
    [] OTHER ->
         [open |-> "[", close |-> "]", true |-> "1", false |-> "0",
          stringPrefix |-> "N", paginationStyle |-> "OFFSET_FETCH"]

\* ------------------------------------------------------------ predicate trees
NoOperand == [t |-> "none", b |-> FALSE, n |-> 0, s |-> ""]
BoolV(b) == [t |-> "bool", b |-> b, n |-> 0, s |-> ""]
NumV(n) == [t |-> "num", b |-> FALSE, n |-> n, s |-> ""]
NullV == [t |-> "null", b |-> FALSE, n |-> 0, s |-> ""]
StrV(s) == [t |-> "str", b |-> FALSE, n |-> 0, s |-> s]

Leaf(column, op, operand) ==
  [kind |-> "leaf", column |-> column, op |-> op, operand |-> operand,
   children |-> <<>>]
Comb(kind, children) ==
  [kind |-> kind, column |-> "", op |-> "", operand |-> NoOperand,
   children |-> children]

\* The caller's where objects (test fixtures):
\*   { active: true }, { active: true, age: 25 }
WhereObjects ==
  << Leaf("active", "EQ", BoolV(TRUE)),
     Comb("AND", << Leaf("active", "EQ", BoolV(TRUE)),
                    Leaf("age", "EQ", NumV(25)) >>) >>

\* The caller's attribute arrays: [], ['name'], ['name', 'email']
AttrArrays == << <<>>, <<"name">>, <<"name", "email">> >>

\* ------------------------------------------------------------ encoder (4.1)
quoteIdentifier(d, id) == DialectDef(d).open \o id \o DialectDef(d).close

\* alias.column, each part quoted
qualifiedColumn(d, alias, column) ==
  quoteIdentifier(d, alias) \o "." \o quoteIdentifier(d, column)

booleanLiteral(d, b) == IF b THEN DialectDef(d).true ELSE DialectDef(d).false

\* A scalar as SQL text: booleans by the dialect, numbers in decimal, NULL
\* as the keyword, strings single-quoted behind the dialect's prefix.
escape(d, v) ==
  CASE v.t = "bool" -> booleanLiteral(d, v.b)
    [] v.t = "num" -> ToString(v.n)
    [] v.t = "str" -> DialectDef(d).stringPrefix \o "'" \o v.s \o "'"
    [] OTHER -> "NULL"

\* ------------------------------------------------------------ predicate compiler (4.2)
operatorSql(op) ==
  CASE op = "EQ" -> "="
    [] op = "NE" -> "<>"
    [] op = "LT" -> "<"
    [] op = "LTE" -> "<="
    [] op = "GT" -> ">"
    [] op = "GTE" -> ">="
    [] OTHER -> "LIKE"

\* A comparison; a NULL operand of EQ / NE becomes IS NULL / IS NOT NULL.
renderLeaf(d, alias, t) ==
  IF t.operand.t = "null" /\ t.op = "EQ"
  THEN <<qualifiedColumn(d, alias, t.column), "IS", "NULL">>
  ELSE IF t.operand.t = "null" /\ t.op = "NE"
  THEN <<qualifiedColumn(d, alias, t.column), "IS", "NOT", "NULL">>
  ELSE <<qualifiedColumn(d, alias, t.column), operatorSql(t.op),
         escape(d, t.operand)>>

RECURSIVE renderPredicate(_, _, _, _)
RECURSIVE joinChildren(_, _, _, _, _)

\* The children from the i-th on, joined by the combinator's keyword.
joinChildren(d, alias, kind, children, i) ==
  IF i > Len(children) THEN <<>>
  ELSE (IF i > 1 THEN <<kind>> ELSE <<>>)
       \o renderPredicate(d, alias, children[i], kind)
       \o joinChildren(d, alias, kind, children, i + 1)

\* The WHERE fragment of a tree under a parent of kind `parent` ("" at the
\* root): a combinator under a combinator of the other kind is parenthesized.
renderPredicate(d, alias, t, parent) ==
  IF t.kind = "leaf" THEN renderLeaf(d, alias, t)
  ELSE IF parent # "" /\ parent # t.kind
  THEN <<"(">> \o joinChildren(d, alias, t.kind, t.children, 1) \o <<")">>
  ELSE joinChildren(d, alias, t.kind, t.children, 1)

\* ------------------------------------------------------------ statement assembler (4.3)
\* What a compilation yields: a statement, or an error and no text.
Ok(sql) == [ok |-> TRUE, error |-> "", message |-> <<>>, sql |-> sql]
Fail(error, message) ==
  [ok |-> FALSE, error |-> error, message |-> message, sql |-> <<>>]
NoResult == [ok |-> FALSE, error |-> "", message |-> <<>>, sql |-> <<>>]

RECURSIVE columnList(_, _, _)
\* The quoted columns from the i-th on, comma-joined, in the order given.
columnList(d, cols, i) ==
  IF i > Len(cols) THEN <<>>
  ELSE (IF i > 1 THEN <<",">> ELSE <<>>)
       \o <<quoteIdentifier(d, cols[i])>> \o columnList(d, cols, i + 1)

selectClause(d, attrs) ==
  <<"SELECT">> \o (IF IsSet(attrs) THEN columnList(d, attrs[1], 1) ELSE <<"*">>)

fromClause(d, tableName, model) ==
  <<"FROM", quoteIdentifier(d, tableName), "AS", quoteIdentifier(d, model.name)>>

whereClause(d, model, where) ==
  IF IsSet(where)
  THEN <<"WHERE">> \o renderPredicate(d, model.name, where[1], "")
  ELSE <<>>

\* The default order, on the primary key, when the query is paginated.
orderClause(d, model, limit, offset) ==
  IF IsSet(limit) \/ IsSet(offset)
  THEN <<"ORDER", "BY", qualifiedColumn(d, model.name, model.primaryKey)>>
  ELSE <<>>

addLimitAndOffset(d, limit, offset) ==
  IF DialectDef(d).paginationStyle = "LIMIT_OFFSET"
  THEN (IF IsSet(limit) THEN <<"LIMIT", ToString(limit[1])>> ELSE <<>>)
       \o (IF IsSet(offset) THEN <<"OFFSET", ToString(offset[1])>> ELSE <<>>)
  ELSE IF IsSet(limit)
  THEN <<"OFFSET", ToString(IF IsSet(offset) THEN offset[1] ELSE 0), "ROWS",
         "FETCH", "NEXT", ToString(limit[1]), "ROWS", "ONLY">>
  ELSE IF IsSet(offset)
  THEN <<"OFFSET", ToString(offset[1]), "ROWS">>
  ELSE <<>>

\* queryGenerator.selectQuery(tableName, options, model).  In the options
\* attributes is absent or an array, where is absent, null or a tree.
selectQuery(d, tableName, options, model) ==
  IF IsSet(options.attributes) /\ Len(options.attributes[1]) = 0
  THEN Fail("EmptyProjection",
            <<"Attempted a SELECT query for model", "'" \o model.name \o "'",
              "as", quoteIdentifier(d, model.name),
              "without selecting any columns">>)
  ELSE IF options.whereIsNull
  THEN Fail("InvalidPredicate", <<"Invalid where option">>)
  ELSE Ok(selectClause(d, options.attributes)
          \o fromClause(d, tableName, model)
          \o whereClause(d, model, options.where)
          \o orderClause(d, model, options.limit, options.offset)
          \o addLimitAndOffset(d, options.limit, options.offset)
          \o <<";">>)

\* ------------------------------------------------------------ QueryBuilder
\* new QueryBuilder(model): every field but the model is unset.
NewBuilder(model) ==
  [model |-> model, attributes |-> Undefined, where |-> Undefined,
   limit |-> Undefined, offset |-> Undefined, isSelect |-> FALSE]

\* What a call yields: the instances after the call, the instance returned.
Returned(bs, ret) == [builders |-> bs, ret |-> ret]

createQueryBuilder(bs, model) ==
  Returned(Append(bs, NewBuilder(model)), Len(bs) + 1)

\* clone() that leaves out the copy of _attributes.
cloneWithoutAttributes(bs, b) ==
  Returned(Append(bs, [NewBuilder(bs[b].model) EXCEPT
                         !.isSelect = bs[b].isSelect,
                         !.where = bs[b].where,
                         !.limit = bs[b].limit,
                         !.offset = bs[b].offset]),
           Len(bs) + 1)

\* clone() that leaves out the copy of _limit.
cloneWithoutLimit(bs, b) ==
  Returned(Append(bs, [NewBuilder(bs[b].model) EXCEPT
                         !.isSelect = bs[b].isSelect,
                         !.attributes = bs[b].attributes,
                         !.where = bs[b].where,
                         !.offset = bs[b].offset]),
           Len(bs) + 1)

\* clone() that leaves out the copy of _isSelect.
cloneWithoutMode(bs, b) ==
  Returned(Append(bs, [NewBuilder(bs[b].model) EXCEPT
                         !.attributes = bs[b].attributes,
                         !.where = bs[b].where,
                         !.limit = bs[b].limit,
                         !.offset = bs[b].offset]),
           Len(bs) + 1)

\* clone() as `return this`: the setters then write into their receiver.
cloneReturnsThis(bs, b) == Returned(bs, b)

clone(bs, b) ==
  Returned(Append(bs, [NewBuilder(bs[b].model) EXCEPT
                         !.isSelect = bs[b].isSelect,
                         !.attributes = bs[b].attributes,
                         !.where = bs[b].where,
                         !.limit = bs[b].limit,
                         !.offset = bs[b].offset]),
           Len(bs) + 1)

\* select() that hands back a receiver already in SELECT mode.
selectReusesReceiver(bs, b) ==
  IF bs[b].isSelect THEN Returned(bs, b)
  ELSE Returned(Append(bs, [NewBuilder(bs[b].model) EXCEPT !.isSelect = TRUE]),
                Len(bs) + 1)

select(bs, b) ==
  Returned(Append(bs, [NewBuilder(bs[b].model) EXCEPT !.isSelect = TRUE]),
           Len(bs) + 1)

\* attributes() that starts the returned builder without the conditions.
attributesResetsWhere(bs, b, a) ==
  LET c == clone(bs, b)
  IN Returned([c.builders EXCEPT ![c.ret].attributes = a,
                                 ![c.ret].where = Undefined],
              c.ret)

attributes(bs, b, a) ==
  LET c == clone(bs, b)
  IN Returned([c.builders EXCEPT ![c.ret].attributes = a], c.ret)

\* where() that assigns _where of its receiver before it clones it.
whereWritesReceiver(bs, b, conditions) ==
  clone([bs EXCEPT ![b].where = conditions], b)

\* where() that returns the clone without assigning _where.
whereDropsConditions(bs, b, conditions) == clone(bs, b)

\* where() that starts the returned builder without limit and offset.
whereResetsPagination(bs, b, conditions) ==
  LET c == clone(bs, b)
  IN Returned([c.builders EXCEPT ![c.ret].where = conditions,
                                 ![c.ret].limit = Undefined,
                                 ![c.ret].offset = Undefined],
              c.ret)

\* where() that stores null as undefined (conditions ?? undefined).
whereNullAsUndefined(bs, b, conditions) ==
  LET c == clone(bs, b)
  IN Returned([c.builders EXCEPT
                 ![c.ret].where = IF conditions = Some(NullRef)
                                  THEN Undefined ELSE conditions],
              c.ret)

where(bs, b, conditions) ==
  LET c == clone(bs, b)
  IN Returned([c.builders EXCEPT ![c.ret].where = conditions], c.ret)

\* limit() that keeps a limit its receiver already has.
limitKeepsEarlier(bs, b, n) ==
  LET c == clone(bs, b)
  IN Returned([c.builders EXCEPT
                 ![c.ret].limit = IF IsSet(bs[b].limit) THEN bs[b].limit ELSE Some(n)],
              c.ret)

limit(bs, b, n) ==
  LET c == clone(bs, b)
  IN Returned([c.builders EXCEPT ![c.ret].limit = Some(n)], c.ret)

\* offset() that assigns _limit, as limit() does.
offsetWritesLimit(bs, b, n) ==
  LET c == clone(bs, b)
  IN Returned([c.builders EXCEPT ![c.ret].limit = Some(n)], c.ret)

offset(bs, b, n) ==
  LET c == clone(bs, b)
  IN Returned([c.builders EXCEPT ![c.ret].offset = Some(n)], c.ret)

\* get tableName
tableName(bs, b) == ModelDef(bs[b].model).tableName

\* Options without the where entry.
selectOptionsWithoutWhere(bs, b, ah, wh) ==
  [attributes |-> IF IsSet(bs[b].attributes)
                  THEN Some(ah[bs[b].attributes[1]]) ELSE Undefined,
   whereIsNull |-> FALSE,
   where |-> Undefined,
   limit |-> bs[b].limit,
   offset |-> bs[b].offset]

\* Options that pass an empty attribute array on as no attributes
\* (this._attributes?.length ? this._attributes : undefined).
selectOptionsEmptyAsAbsent(bs, b, ah, wh) ==
  [attributes |-> IF IsSet(bs[b].attributes) /\ Len(ah[bs[b].attributes[1]]) > 0
                  THEN Some(ah[bs[b].attributes[1]]) ELSE Undefined,
   whereIsNull |-> bs[b].where = Some(NullRef),
   where |-> IF IsSet(bs[b].where) /\ bs[b].where # Some(NullRef)
             THEN Some(wh[bs[b].where[1]]) ELSE Undefined,
   limit |-> bs[b].limit,
   offset |-> bs[b].offset]

\* Options without the offset entry.
selectOptionsWithoutOffset(bs, b, ah, wh) ==
  [attributes |-> IF IsSet(bs[b].attributes)
                  THEN Some(ah[bs[b].attributes[1]]) ELSE Undefined,
   whereIsNull |-> bs[b].where = Some(NullRef),
   where |-> IF IsSet(bs[b].where) /\ bs[b].where # Some(NullRef)
             THEN Some(wh[bs[b].where[1]]) ELSE Undefined,
   limit |-> bs[b].limit,
   offset |-> Undefined]

\* The options getQuery hands to the generator, each reference read through
\* the heap as the generator reads it.
selectOptions(bs, b, ah, wh) ==
  [attributes |-> IF IsSet(bs[b].attributes)
                  THEN Some(ah[bs[b].attributes[1]]) ELSE Undefined,
   whereIsNull |-> bs[b].where = Some(NullRef),
   where |-> IF IsSet(bs[b].where) /\ bs[b].where # Some(NullRef)
             THEN Some(wh[bs[b].where[1]]) ELSE Undefined,
   limit |-> bs[b].limit,
   offset |-> bs[b].offset]

\* getQuery that, when the generator throws, clears the attributes and the
\* where of its receiver.
getQueryClearsOnFailure(bs, b, d, ah, wh) ==
  IF ~bs[b].isSelect
  THEN [builders |-> bs,
        result |-> Fail("NotInSelectMode",
                        <<"Query builder requires select() to be called first">>),
        calledGenerator |-> FALSE]
  ELSE LET generated == selectQuery(d, tableName(bs, b), selectOptions(bs, b, ah, wh),
                                    ModelDef(bs[b].model))
       IN [builders |-> IF generated.ok THEN bs
                        ELSE [bs EXCEPT ![b].attributes = Undefined,
                                        ![b].where = Undefined],
           result |-> generated,
           calledGenerator |-> TRUE]

\* getQuery that appends the LIMIT itself to the statement generated
\* without one.
getQueryAppendsLimit(bs, b, d, ah, wh) ==
  IF ~bs[b].isSelect
  THEN [builders |-> bs,
        result |-> Fail("NotInSelectMode",
                        <<"Query builder requires select() to be called first">>),
        calledGenerator |-> FALSE]
  ELSE LET generated ==
             selectQuery(d, tableName(bs, b),
                         [selectOptions(bs, b, ah, wh) EXCEPT !.limit = Undefined],
                         ModelDef(bs[b].model))
       IN [builders |-> bs,
           result |-> IF generated.ok /\ IsSet(bs[b].limit)
                      THEN Ok(generated.sql
                              \o <<"LIMIT", ToString(bs[b].limit[1])>>)
                      ELSE generated,
           calledGenerator |-> TRUE]

\* getQuery without the mode check.
getQueryUnguarded(bs, b, d, ah, wh) ==
  [builders |-> bs,
   result |-> selectQuery(d, tableName(bs, b), selectOptions(bs, b, ah, wh),
                          ModelDef(bs[b].model)),
   calledGenerator |-> TRUE]

\* getQuery that resets the pagination of its receiver once it has rendered.
getQueryResetsPagination(bs, b, d, ah, wh) ==
  IF ~bs[b].isSelect
  THEN [builders |-> bs,
        result |-> Fail("NotInSelectMode",
                        <<"Query builder requires select() to be called first">>),
        calledGenerator |-> FALSE]
  ELSE [builders |-> [bs EXCEPT ![b].limit = Undefined, ![b].offset = Undefined],
        result |-> selectQuery(d, tableName(bs, b), selectOptions(bs, b, ah, wh),
                               ModelDef(bs[b].model)),
        calledGenerator |-> TRUE]

\* getQuery that calls the generator of the postgres dialect, whatever the
\* dialect of this._sequelize.
getQueryOtherGenerator(bs, b, d, ah, wh) ==
  IF ~bs[b].isSelect
  THEN [builders |-> bs,
        result |-> Fail("NotInSelectMode",
                        <<"Query builder requires select() to be called first">>),
        calledGenerator |-> FALSE]
  ELSE [builders |-> bs,
        result |-> selectQuery("postgres", tableName(bs, b),
                               selectOptions(bs, b, ah, wh), ModelDef(bs[b].model)),
        calledGenerator |-> TRUE]

\* getQuery: the instances after the call, what it returned or threw, and
\* whether it called the generator.
getQuery(bs, b, d, ah, wh) ==
  IF ~bs[b].isSelect
  THEN [builders |-> bs,
        result |-> Fail("NotInSelectMode",
                        <<"Query builder requires select() to be called first">>),
        calledGenerator |-> FALSE]
  ELSE [builders |-> bs,
        result |-> selectQuery(d, tableName(bs, b), selectOptions(bs, b, ah, wh),
                               ModelDef(bs[b].model)),
        calledGenerator |-> TRUE]

\* ------------------------------------------------------------ execute
\* What sequelize.queryRaw(sql) settles with: rows, or a database error.
QueryRawOutcomes ==
  { [state |-> "fulfilled", value |-> "rows"],
    [state |-> "rejected", value |-> "DatabaseError"] }

NoResponse == [state |-> "none", value |-> ""]

\* No execute() call in flight.
NotExecuting ==
  [state |-> "none", rendered |-> NoResult, calledGenerator |-> FALSE,
   queryRaw |-> <<>>, response |-> NoResponse, value |-> ""]

\* execute() that hands the statement over without its terminator.
executeTrimsTerminator(bs, b, d, ah, wh) ==
  LET q == getQuery(bs, b, d, ah, wh)
  IN IF q.result.ok
     THEN [builders |-> q.builders, state |-> "pending", rendered |-> q.result,
           calledGenerator |-> q.calledGenerator,
           queryRaw |-> <<SubSeq(q.result.sql, 1, Len(q.result.sql) - 1)>>,
           value |-> ""]
     ELSE [builders |-> q.builders, state |-> "rejected", rendered |-> q.result,
           calledGenerator |-> q.calledGenerator,
           queryRaw |-> <<>>, value |-> q.result.error]

\* execute() up to its return statement: getQuery, then queryRaw with the
\* text it returned; when getQuery throws, the promise of execute() is
\* rejected with that error and queryRaw is not called.  queryRaw holds the
\* texts handed to sequelize.queryRaw.
execute(bs, b, d, ah, wh) ==
  LET q == getQuery(bs, b, d, ah, wh)
  IN IF q.result.ok
     THEN [builders |-> q.builders, state |-> "pending", rendered |-> q.result,
           calledGenerator |-> q.calledGenerator,
           queryRaw |-> <<q.result.sql>>, value |-> ""]
     ELSE [builders |-> q.builders, state |-> "rejected", rendered |-> q.result,
           calledGenerator |-> q.calledGenerator,
           queryRaw |-> <<>>, value |-> q.result.error]

\* A return that calls queryRaw a second time when the first call failed.
executeReturnRetrying(queryRaw, response) ==
  [state |-> response.state,
   queryRaw |-> IF response.state = "rejected" THEN queryRaw \o queryRaw
                ELSE queryRaw,
   value |-> response.value]

\* return this._sequelize.queryRaw(sql): the promise of execute() settles as
\* the promise of queryRaw does.
executeReturn(queryRaw, response) ==
  [state |-> response.state, queryRaw |-> queryRaw, value |-> response.value]

\* ------------------------------------------------------------ arguments
AttributesArgs == {Some(r) : r \in 1..Len(AttrArrays)}
WhereArgs == {Undefined, Some(NullRef)} \cup {Some(r) : r \in 1..Len(WhereObjects)}
LimitArgs == {10}
OffsetArgs == {5}

\* The argument as the history records it: a reference or a number, -1 for
\* undefined.
ArgCode(o) == IF IsSet(o) THEN o[1] ELSE -1

\* ------------------------------------------------------------ state machine
Call(op, recv, ret, result, calledGenerator) ==
  [op |-> op, recv |-> recv, ret |-> ret, result |-> result,
   calledGenerator |-> calledGenerator]

NoneSeen == [recv |-> 0, result |-> NoResult]

Init ==
  /\ builders = <<>>
  /\ hist = <<>>
  /\ attrHeap = AttrArrays
  /\ whereHeap = WhereObjects
  /\ dialect \in DialectNames
  /\ out = Call("", 0, 0, NoResult, FALSE)
  /\ seen = NoneSeen
  /\ exec = NotExecuting

\* The history after a call on `recv` that returned `ret`.
Record(recv, r, op, arg) ==
  LET h == (IF recv = 0 THEN <<>> ELSE hist[recv]) \o <<[op |-> op, arg |-> arg]>>
  IN IF r.ret > Len(hist) THEN Append(hist, h)
     ELSE [hist EXCEPT ![r.ret] = h]

\* A chainable call on `recv` returned r.
Chained(recv, r, op, arg) ==
  /\ builders' = r.builders
  /\ hist' = Record(recv, r, op, arg)
  /\ out' = Call(op, recv, r.ret, NoResult, FALSE)
  /\ UNCHANGED <<attrHeap, whereHeap, dialect, seen, exec>>

Construct ==
  /\ Len(builders) < MaxBuilders
  /\ \E m \in ModelNames :
       Chained(0, createQueryBuilder(builders, m), "new", 0)

CallSelect ==
  /\ Len(builders) < MaxBuilders
  /\ \E b \in DOMAIN builders :
       Chained(b, select(builders, b), "select", 0)

CallAttributes ==
  /\ Len(builders) < MaxBuilders
  /\ \E b \in DOMAIN builders, a \in AttributesArgs :
       Chained(b, attributes(builders, b, a), "attributes", ArgCode(a))

CallWhere ==
  /\ Len(builders) < MaxBuilders
  /\ \E b \in DOMAIN builders, w \in WhereArgs :
       Chained(b, where(builders, b, w), "where", ArgCode(w))

CallLimit ==
  /\ Len(builders) < MaxBuilders
  /\ \E b \in DOMAIN builders, n \in LimitArgs :
       Chained(b, limit(builders, b, n), "limit", n)

CallOffset ==
  /\ Len(builders) < MaxBuilders
  /\ \E b \in DOMAIN builders, n \in OffsetArgs :
       Chained(b, offset(builders, b, n), "offset", n)

\* getQuery on b returned or threw r.result.
Queried(b, r) ==
  /\ builders' = r.builders
  /\ out' = Call("getQuery", b, 0, r.result, r.calledGenerator)
  /\ UNCHANGED <<hist, attrHeap, whereHeap, dialect, exec>>

CallGetQuery ==
  \E b \in DOMAIN builders :
    /\ Queried(b, getQuery(builders, b, dialect, attrHeap, whereHeap))
    /\ UNCHANGED seen

Next ==
  \/ Construct
  \/ CallSelect
  \/ CallAttributes
  \/ CallWhere
  \/ CallLimit
  \/ CallOffset
  \/ CallGetQuery

Spec == Init /\ [][Next]_vars

\* The same program watched by an observer that remembers one getQuery call,
\* to compare later calls on the same instance with.
RememberGetQuery ==
  \E b \in DOMAIN builders :
    LET r == getQuery(builders, b, dialect, attrHeap, whereHeap)
    IN /\ Queried(b, r)
       /\ seen' = [recv |-> b, result |-> r.result]

NextObserved == Next \/ RememberGetQuery

SpecObserved == Init /\ [][NextObserved]_vars

\* ------------------------------------------------------------ one reassigned builder
\* A caller that keeps a single builder and reassigns it on every call,
\*   q = new QueryBuilder(m); q = q.select(); q = q.limit(10); ...
\* builders holds that one instance; hist[1] holds, for each method, its
\* last call, in the order of the last calls.
Latest(h, op, arg) ==
  SelectSeq(h, LAMBDA c : c.op # op) \o <<[op |-> op, arg |-> arg]>>

InitChain ==
  /\ \E m \in ModelNames : builders = <<NewBuilder(m)>>
  /\ hist = << <<[op |-> "new", arg |-> 0]>> >>
  /\ attrHeap = AttrArrays
  /\ whereHeap = WhereObjects
  /\ dialect \in DialectNames
  /\ out = Call("new", 0, 1, NoResult, FALSE)
  /\ seen = NoneSeen
  /\ exec = NotExecuting

Reassigned(r, op, arg) ==
  /\ builders' = <<r.builders[r.ret]>>
  /\ hist' = <<Latest(hist[1], op, arg)>>
  /\ out' = Call(op, 1, 1, NoResult, FALSE)
  /\ UNCHANGED <<attrHeap, whereHeap, dialect, seen, exec>>

ChainSelect == Reassigned(select(builders, 1), "select", 0)

ChainAttributes ==
  \E a \in AttributesArgs :
    Reassigned(attributes(builders, 1, a), "attributes", ArgCode(a))

ChainWhere ==
  \E w \in WhereArgs : Reassigned(where(builders, 1, w), "where", ArgCode(w))

ChainLimit == \E n \in LimitArgs : Reassigned(limit(builders, 1, n), "limit", n)

ChainOffset ==
  \E n \in OffsetArgs : Reassigned(offset(builders, 1, n), "offset", n)

ChainGetQuery ==
  LET r == getQuery(builders, 1, dialect, attrHeap, whereHeap)
  IN /\ builders' = <<r.builders[1]>>
     /\ out' = Call("getQuery", 1, 0, r.result, r.calledGenerator)
     /\ UNCHANGED <<hist, attrHeap, whereHeap, dialect, seen, exec>>

NextChain ==
  \/ ChainSelect
  \/ ChainAttributes
  \/ ChainWhere
  \/ ChainLimit
  \/ ChainOffset
  \/ ChainGetQuery

SpecChain == InitChain /\ [][NextChain]_vars

\* ------------------------------------------------------------ nested where objects
\* Depth of the where objects a caller passes: combinators nested in
\* combinators.
MaxDepth == 3

Kinds == {"AND", "OR"}

\* { active: true }, { age: null }, { age: { [Op.ne]: null } }
TreeLeaves ==
  { Leaf("active", "EQ", BoolV(TRUE)),
    Leaf("age", "EQ", NullV),
    Leaf("age", "NE", NullV) }

\* { name: { [Op.like]: '%admin%' } }
LikeLeaf == Leaf("name", "LIKE", StrV("%admin%"))

\* { [Op.or]: [{ active: true },
\*              { [Op.and]: [{ age: { [Op.gte]: 18 } },
\*                           { name: { [Op.like]: '%admin%' } }] }] }
NestedFixture ==
  Comb("OR", << Leaf("active", "EQ", BoolV(TRUE)),
                Comb("AND", << Leaf("age", "GTE", NumV(18)), LikeLeaf >>) >>)

RECURSIVE NestedTrees(_)
\* The where objects of at most d nested combinators: a combinator holds
\* one object, or one object beside the LIKE comparison.
NestedTrees(d) ==
  IF d = 0 THEN TreeLeaves
  ELSE LET S == NestedTrees(d - 1)
       IN TreeLeaves
          \cup {Comb(k, <<t>>) : k \in Kinds, t \in S}
          \cup {Comb(k, <<LikeLeaf, t>>) : k \in Kinds, t \in S}
          \cup {Comb(k, <<t, LikeLeaf>>) : k \in Kinds, t \in S}

\* Two combinators side by side in a third.
SiblingTrees ==
  {Comb(k, <<x, y>>) : k \in Kinds,
                       x \in NestedTrees(1) \ TreeLeaves,
                       y \in NestedTrees(1) \ TreeLeaves}

PredicateTrees == NestedTrees(MaxDepth) \cup SiblingTrees \cup {NestedFixture}

\* One builder, reassigned, whose caller holds one where object.
InitWhere ==
  /\ \E m \in ModelNames : builders = <<NewBuilder(m)>>
  /\ hist = << <<[op |-> "new", arg |-> 0]>> >>
  /\ attrHeap = AttrArrays
  /\ \E t \in PredicateTrees : whereHeap = <<t>>
  /\ dialect \in DialectNames
  /\ out = Call("new", 0, 1, NoResult, FALSE)
  /\ seen = NoneSeen
  /\ exec = NotExecuting

WhereTree == Reassigned(where(builders, 1, Some(1)), "where", 1)

NextWhere ==
  \/ ChainSelect
  \/ WhereTree
  \/ ChainGetQuery

SpecWhere == InitWhere /\ [][NextWhere]_vars

\* ------------------------------------------------------------ attribute lists
\* Length of the attribute arrays a caller passes.
MaxColumns == 3

\* Columns of the User model.
Columns == {"name", "email", "age"}

\* The arrays of at most n column names, in any order, repeats included.
ColumnLists(n) == UNION {[1..k -> Columns] : k \in 0..n}

\* One builder, reassigned, whose caller holds one attribute array.
InitProjection ==
  /\ \E m \in ModelNames : builders = <<NewBuilder(m)>>
  /\ hist = << <<[op |-> "new", arg |-> 0]>> >>
  /\ \E cols \in ColumnLists(MaxColumns) : attrHeap = <<cols>>
  /\ whereHeap = WhereObjects
  /\ dialect \in DialectNames
  /\ out = Call("new", 0, 1, NoResult, FALSE)
  /\ seen = NoneSeen
  /\ exec = NotExecuting

AttributesList == Reassigned(attributes(builders, 1, Some(1)), "attributes", 1)

NextProjection ==
  \/ ChainSelect
  \/ AttributesList
  \/ ChainWhere
  \/ ChainLimit
  \/ ChainGetQuery

SpecProjection == InitProjection /\ [][NextProjection]_vars

\* ------------------------------------------------------------ a caller that awaits execute()
\* The caller of SpecChain, who also calls `await q.execute()` and goes on
\* when its promise has settled.
CallExecute ==
  /\ exec.state = "none"
  /\ LET r == execute(builders, 1, dialect, attrHeap, whereHeap)
     IN /\ builders' = <<r.builders[1]>>
        /\ exec' = [state |-> r.state, rendered |-> r.rendered,
                    calledGenerator |-> r.calledGenerator,
                    queryRaw |-> r.queryRaw, response |-> NoResponse,
                    value |-> r.value]
  /\ UNCHANGED <<hist, attrHeap, whereHeap, dialect, out, seen>>

\* The promise of queryRaw settles, and with it that of execute().
QueryRawSettles ==
  /\ exec.state = "pending"
  /\ \E response \in QueryRawOutcomes :
       LET r == executeReturn(exec.queryRaw, response)
       IN exec' = [exec EXCEPT !.state = r.state, !.queryRaw = r.queryRaw,
                               !.response = response, !.value = r.value]
  /\ UNCHANGED <<builders, hist, attrHeap, whereHeap, dialect, out, seen>>

\* The caller takes the rows or catches the error.
ExecuteAwaited ==
  /\ exec.state \in {"fulfilled", "rejected"}
  /\ exec' = NotExecuting
  /\ out' = Call("execute", 1, 0, exec.rendered, exec.calledGenerator)
  /\ UNCHANGED <<builders, hist, attrHeap, whereHeap, dialect, seen>>

NextExecute ==
  \/ exec.state = "none" /\ NextChain
  \/ CallExecute
  \/ QueryRawSettles
  \/ ExecuteAwaited

SpecExecute == InitChain /\ [][NextExecute]_vars

\* ------------------------------------------------------------ failed getQuery calls remembered
\* SpecChain watched by an observer that remembers a getQuery call that
\* threw.
ChainRememberFailure ==
  LET r == getQuery(builders, 1, dialect, attrHeap, whereHeap)
  IN /\ ~r.result.ok
     /\ builders' = <<r.builders[1]>>
     /\ out' = Call("getQuery", 1, 0, r.result, r.calledGenerator)
     /\ seen' = [recv |-> 1, result |-> r.result]
     /\ UNCHANGED <<hist, attrHeap, whereHeap, dialect, exec>>

NextChainObserved == NextChain \/ ChainRememberFailure

SpecChainObserved == InitChain /\ [][NextChainObserved]_vars

\* ------------------------------------------------------------ chains from one base
\* A base builder and the chains derived from it, their steps in any order:
\*   base = new QueryBuilder(m).select().attributes(['name', 'email']);
\*   a = base.where({ active: true });   b = base.limit(10);
\*   a = a.limit(10);   b.getQuery();   a.getQuery();   ...
\* builders[1] is the base, reassigned until the first chain leaves it;
\* builders[k], k > 1, is the builder a chain has reached.
BaseSelect == Len(builders) = 1 /\ ChainSelect

BaseAttributes ==
  /\ Len(builders) = 1
  /\ Reassigned(attributes(builders, 1, Some(3)), "attributes", 3)

\* The calls the chains make.
BranchCalls ==
  { [op |-> "where", arg |-> 1], [op |-> "where", arg |-> 2],
    [op |-> "limit", arg |-> 10] }

Invoke(bs, b, c) ==
  IF c.op = "where" THEN where(bs, b, Some(c.arg)) ELSE limit(bs, b, c.arg)

\* A chain starts: a call on the base.
Derive ==
  /\ Len(builders) < MaxBuilders
  /\ \E c \in BranchCalls :
       LET r == Invoke(builders, 1, c)
       IN /\ builders' = r.builders
          /\ hist' = Append(hist, Latest(hist[1], c.op, c.arg))
          /\ out' = Call(c.op, 1, r.ret, NoResult, FALSE)
  /\ UNCHANGED <<attrHeap, whereHeap, dialect, seen, exec>>

\* A chain goes on: a call on the builder it has reached, which it keeps
\* in place of that one.
Extend ==
  /\ \E k \in 2..Len(builders), c \in BranchCalls :
       LET r == Invoke(builders, k, c)
       IN /\ builders' = [i \in 1..Len(builders) |->
                            IF i = k THEN r.builders[r.ret] ELSE r.builders[i]]
          /\ hist' = [hist EXCEPT ![k] = Latest(hist[k], c.op, c.arg)]
          /\ out' = Call(c.op, k, k, NoResult, FALSE)
  /\ UNCHANGED <<attrHeap, whereHeap, dialect, seen, exec>>

NextBranches ==
  \/ BaseSelect
  \/ BaseAttributes
  \/ Derive
  \/ Extend
  \/ CallGetQuery

SpecBranches == InitChain /\ [][NextBranches]_vars

\* ------------------------------------------------------------ a caller that changes its arguments
\* The caller of SpecBranches keeps the arrays and objects it passed to
\* attributes() and where(), and changes them in place:
\*   const cols = ['name', 'email'];  base = User.select().attributes(cols);
\*   a = base.limit(10);  cols.push('id');
CallerPushesColumn ==
  /\ \E r \in DOMAIN attrHeap :
       /\ \A i \in DOMAIN attrHeap[r] : attrHeap[r][i] # "id"
       /\ attrHeap' = [attrHeap EXCEPT ![r] = Append(@, "id")]
  /\ out' = Call("push", 0, 0, NoResult, FALSE)
  /\ UNCHANGED <<builders, hist, whereHeap, dialect, seen, exec>>

\*   const cond = { active: true };  a = base.where(cond);  cond.active = false;
CallerSetsCondition ==
  /\ whereHeap[1] = WhereObjects[1]
  /\ whereHeap' = [whereHeap EXCEPT ![1] = Leaf("active", "EQ", BoolV(FALSE))]
  /\ out' = Call("set", 0, 0, NoResult, FALSE)
  /\ UNCHANGED <<builders, hist, attrHeap, dialect, seen, exec>>

NextAliased ==
  \/ NextBranches
  \/ CallerPushesColumn
  \/ CallerSetsCondition

SpecAliased == InitChain /\ [][NextAliased]_vars

\* ------------------------------------------------------------ any number as limit or offset
\* limit(limit: number), offset(offset: number): the numbers a caller may
\* pass, a negative one among them.
NumericArgs == {-1, 0, 10}

NumericLimit ==
  \E n \in NumericArgs : Reassigned(limit(builders, 1, n), "limit", n)

NumericOffset ==
  \E n \in NumericArgs : Reassigned(offset(builders, 1, n), "offset", n)

NextNumeric ==
  \/ ChainSelect
  \/ NumericLimit
  \/ NumericOffset
  \/ ChainGetQuery

SpecNumeric == InitChain /\ [][NextNumeric]_vars

\* ------------------------------------------------------------ boolean operands
\* The dialects of the tests and the one of the specification's example.
BooleanDialects == DialectNames \cup {"booleanAsInteger"}

\* { active: true }, { active: false }, { active: { [Op.ne]: true } }, ...
BooleanLeaves ==
  {Leaf("active", op, BoolV(b)) : op \in {"EQ", "NE"}, b \in BOOLEAN}

\* ..., { active: true, age: 25 }, { active: false, age: 25 },
\* { [Op.or]: [{ active: true }, { active: false }] }
BooleanObjects ==
  BooleanLeaves
  \cup {Comb("AND", <<Leaf("active", "EQ", BoolV(b)), Leaf("age", "EQ", NumV(25))>>) :
          b \in BOOLEAN}
  \cup {Comb("OR", <<Leaf("active", "EQ", BoolV(TRUE)),
                     Leaf("active", "EQ", BoolV(FALSE))>>)}

\* One builder, reassigned, whose caller holds one where object with boolean
\* operands.
InitBoolean ==
  /\ \E m \in ModelNames : builders = <<NewBuilder(m)>>
  /\ hist = << <<[op |-> "new", arg |-> 0]>> >>
  /\ attrHeap = AttrArrays
  /\ \E t \in BooleanObjects : whereHeap = <<t>>
  /\ dialect \in BooleanDialects
  /\ out = Call("new", 0, 1, NoResult, FALSE)
  /\ seen = NoneSeen
  /\ exec = NotExecuting

NextBoolean ==
  \/ ChainSelect
  \/ WhereTree
  \/ ChainLimit
  \/ ChainGetQuery

SpecBoolean == InitBoolean /\ [][NextBoolean]_vars

\* ------------------------------------------------------------ the QueryBuilder without pagination
\* The second QueryBuilder class of the repository: no _limit, no _offset,
\* no clone(); select() takes over the receiver's attributes and where.
legacySelect(bs, b) ==
  Returned(Append(bs, [NewBuilder(bs[b].model) EXCEPT
                         !.isSelect = TRUE,
                         !.attributes = IF bs[b].attributes # Undefined
                                        THEN bs[b].attributes ELSE Undefined,
                         !.where = IF bs[b].where # Undefined
                                   THEN bs[b].where ELSE Undefined]),
           Len(bs) + 1)

legacyAttributes(bs, b, a) ==
  Returned(Append(bs, [NewBuilder(bs[b].model) EXCEPT
                         !.isSelect = bs[b].isSelect,
                         !.attributes = a,
                         !.where = bs[b].where]),
           Len(bs) + 1)

legacyWhere(bs, b, conditions) ==
  Returned(Append(bs, [NewBuilder(bs[b].model) EXCEPT
                         !.isSelect = bs[b].isSelect,
                         !.attributes = IF bs[b].attributes # Undefined
                                        THEN bs[b].attributes ELSE Undefined,
                         !.where = conditions]),
           Len(bs) + 1)

\* Its options carry attributes and where only.
legacyOptions(bs, b, ah, wh) ==
  [selectOptions(bs, b, ah, wh) EXCEPT !.limit = Undefined, !.offset = Undefined]

legacyGetQuery(bs, b, d, ah, wh) ==
  IF ~bs[b].isSelect
  THEN [builders |-> bs,
        result |-> Fail("NotInSelectMode",
                        <<"Query builder requires select() to be called first">>),
        calledGenerator |-> FALSE]
  ELSE [builders |-> bs,
        result |-> selectQuery(d, ModelDef(bs[b].model).tableName,
                               legacyOptions(bs, b, ah, wh), ModelDef(bs[b].model)),
        calledGenerator |-> TRUE]

\* One reassigned builder of that class.
LegacySelect == Reassigned(legacySelect(builders, 1), "select", 0)

LegacyAttributes ==
  \E a \in AttributesArgs :
    Reassigned(legacyAttributes(builders, 1, a), "attributes", ArgCode(a))

LegacyWhere ==
  \E w \in WhereArgs :
    Reassigned(legacyWhere(builders, 1, w), "where", ArgCode(w))

LegacyGetQuery ==
  LET r == legacyGetQuery(builders, 1, dialect, attrHeap, whereHeap)
  IN /\ builders' = <<r.builders[1]>>
     /\ out' = Call("getQuery", 1, 0, r.result, r.calledGenerator)
     /\ UNCHANGED <<hist, attrHeap, whereHeap, dialect, seen, exec>>

NextLegacy ==
  \/ LegacySelect
  \/ LegacyAttributes
  \/ LegacyWhere
  \/ LegacyGetQuery

SpecLegacy == InitChain /\ [][NextLegacy]_vars

\* ------------------------------------------------------------ properties
Setters == {"attributes", "where", "limit", "offset"}
Chainable == {"select"} \cup Setters

\* What getQuery on instance b returns or throws in the current state.
Rendered(b) == getQuery(builders, b, dialect, attrHeap, whereHeap).result

\* The statement select() alone renders for instance b's model.
SelectStar(b) ==
  <<"SELECT", "*", "FROM",
    quoteIdentifier(dialect, ModelDef(builders[b].model).tableName), "AS",
    quoteIdentifier(dialect, ModelDef(builders[b].model).name), ";">>

HasCall(h, op) == \E i \in DOMAIN h : h[i].op = op

\* C1: no step of the program - a fortiori no chainable call on a builder or
\* on a builder derived from it, on any branch - changes a field of an
\* existing builder or what its getQuery renders.
C1_ReceiverNeverAltered ==
  [][\A b \in DOMAIN builders :
       /\ b \in DOMAIN builders'
       /\ builders'[b] = builders[b]
       /\ Rendered(b)' = Rendered(b)]_vars

\* A setter was called on a select() result, which still renders SELECT *.
C1_Witness ==
  /\ out.op \in Setters
  /\ out.recv \in DOMAIN builders
  /\ out.ret \in DOMAIN builders
  /\ hist[out.recv][Len(hist[out.recv])].op = "select"
  /\ builders[out.ret] # builders[out.recv]
  /\ Rendered(out.recv) = Ok(SelectStar(out.recv))

\* C2: every chainable call returns an instance that did not exist before
\* the call, so neither its receiver nor any builder created earlier.
C2_ReturnsNewInstance ==
  [][out'.op \in Chainable =>
       /\ out'.ret \notin DOMAIN builders
       /\ out'.ret \in DOMAIN builders'
       /\ out'.ret # out'.recv]_vars

\* The third instance of a chain new, select, setter (builder1..builder3).
C2_Witness ==
  /\ Len(builders) = 3
  /\ out.op \in Setters
  /\ out.recv = 2
  /\ out.ret = 3
  /\ HasCall(hist[2], "select")

\* C3: getQuery on a builder in UNSET mode, or one no select() call led to,
\* throws without calling the generator; it returns text only in SELECT mode.
C3_UnsetModeFails ==
  out.op = "getQuery" =>
    /\ (~builders[out.recv].isSelect \/ ~HasCall(hist[out.recv], "select")) =>
         /\ ~out.result.ok
         /\ out.result.error = "NotInSelectMode"
         /\ out.result.sql = <<>>
         /\ ~out.calledGenerator
    /\ out.result.ok => builders[out.recv].isSelect

\* getQuery threw on a directly constructed builder that setters were
\* chained on.
C3_Witness ==
  /\ out.op = "getQuery"
  /\ ~builders[out.recv].isSelect
  /\ Len(hist[out.recv]) > 1
  /\ out.result.error = "NotInSelectMode"

\* C4: a getQuery call leaves every builder as it was, and returns what the
\* remembered earlier getQuery call on the same instance returned, whatever
\* was called in between.
C4_GetQueryDeterministic ==
  [][out'.op = "getQuery" =>
       /\ builders' = builders
       /\ seen.recv = out'.recv => out'.result = seen.result]_vars

\* getQuery returned, on an instance other builders were derived after, the
\* statement the remembered call on that instance returned.
C4_Witness ==
  /\ out.op = "getQuery"
  /\ seen.recv = out.recv
  /\ out.recv < Len(builders)
  /\ out.result.ok
  /\ out.result = seen.result

\* The builder select() returns from a receiver of the given model.
FreshSelect(model) == [NewBuilder(model) EXCEPT !.isSelect = TRUE]

\* select() of query-builder.ts: the instance it returned is in SELECT mode
\* with no attributes, where, limit or offset, whatever the receiver held,
\* and renders SELECT * FROM <table> AS <alias>;
SelectResets ==
  out.op = "select" =>
    /\ builders[out.ret] = FreshSelect(builders[out.ret].model)
    /\ Rendered(out.ret) = Ok(SelectStar(out.ret))

\* C5: select() returns a builder in SELECT mode with attributes, where,
\* limit and offset absent, whatever its receiver held, so that it renders
\* SELECT * FROM <table> AS <alias>; - stated of the class without
\* pagination, whose select() keeps the receiver's attributes and where.
C5_SelectResetsLegacy ==
  out.op = "select" =>
    /\ builders[out.ret] = FreshSelect(builders[out.ret].model)
    /\ legacyGetQuery(builders, out.ret, dialect, attrHeap, whereHeap).result
         = Ok(SelectStar(out.ret))

\* ------------------------------------------------------------ rendered statements
Count(s, t) == Cardinality({i \in DOMAIN s : s[i] = t})

\* The first position of token t in s, 0 when it does not occur.
IndexOf(s, t) ==
  IF \E i \in DOMAIN s : s[i] = t
  THEN CHOOSE i \in DOMAIN s : s[i] = t /\ \A j \in 1..(i - 1) : s[j] # t
  ELSE 0

\* The first position of a token of T in s, 0 when none occurs.
FirstOf(s, T) ==
  IF \E i \in DOMAIN s : s[i] \in T
  THEN CHOOSE i \in DOMAIN s : s[i] \in T /\ \A j \in 1..(i - 1) : s[j] \notin T
  ELSE 0

\* The position of the last call of method op in history h, 0 when none.
CallIndex(h, op) ==
  IF \E i \in DOMAIN h : h[i].op = op
  THEN CHOOSE i \in DOMAIN h : h[i].op = op /\ \A j \in (i + 1)..Len(h) : h[j].op # op
  ELSE 0

\* Method op was called after the last select(), or after construction.
InEffect(h, op) == CallIndex(h, op) > CallIndex(h, "select")

\* The history without its calls of method op.
Without(h, op) == SelectSeq(h, LAMBDA c : c.op # op)

RECURSIVE Replay(_, _, _)
\* The builder the calls of h from the i-th on produce, starting from q.
Replay(h, i, q) ==
  IF i > Len(h) THEN q
  ELSE LET c == h[i]
           r == CASE c.op = "select" -> select(<<q>>, 1)
                  [] c.op = "attributes" -> attributes(<<q>>, 1, Some(c.arg))
                  [] c.op = "where" ->
                       where(<<q>>, 1, IF c.arg = -1 THEN Undefined ELSE Some(c.arg))
                  [] c.op = "limit" -> limit(<<q>>, 1, c.arg)
                  [] c.op = "offset" -> offset(<<q>>, 1, c.arg)
                  [] OTHER -> Returned(<<q>>, 1)
       IN Replay(h, i + 1, r.builders[r.ret])

\* What getQuery returns or throws on the builder a chain of calls h on a
\* new QueryBuilder(model) produces.
RenderedChain(h, model) ==
  getQuery(<<Replay(h, 1, NewBuilder(model))>>, 1, dialect, attrHeap, whereHeap).result

PaginationWords == {"LIMIT", "OFFSET", "FETCH"}

\* SELECT ... FROM t AS a [WHERE ...] [ORDER BY ...] [pagination] ;
ClausesInOrder(sql) ==
  LET n == Len(sql)
      pF == IndexOf(sql, "FROM")
      pW == IndexOf(sql, "WHERE")
      pO == IndexOf(sql, "ORDER")
      pP == FirstOf(sql, PaginationWords)
  IN /\ n >= 7
     /\ sql[1] = "SELECT"
     /\ Count(sql, "SELECT") = 1
     /\ Count(sql, "FROM") = 1
     /\ pF >= 3
     /\ sql[pF + 2] = "AS"
     /\ Count(sql, "WHERE") <= 1
     /\ pW # 0 => pW = pF + 4
     /\ Count(sql, "ORDER") <= 1
     /\ pO # 0 => sql[pO + 1] = "BY" /\ pO >= pF + 4 /\ pO > pW
     /\ pP # 0 => pP >= pF + 4 /\ pP > pW /\ pP > pO + 1
     /\ Count(sql, ";") = 1
     /\ sql[n] = ";"

\* C6: every statement getQuery returns has its clauses in the order SELECT,
\* FROM ... AS, WHERE, ORDER BY, pagination, and one semicolon, at its end,
\* whatever the order of the setter calls that led to the builder.
C6_ClauseOrderFixed ==
  (out.op = "getQuery" /\ out.result.ok) => ClausesInOrder(out.result.sql)

\* A statement with all the clauses, from a chain that called offset, limit,
\* where, attributes in that order, the reverse of the clause order.
C6_Witness ==
  LET h == hist[1]
  IN /\ out.op = "getQuery"
     /\ out.result.ok
     /\ CallIndex(h, "select") > 0
     /\ CallIndex(h, "select") < CallIndex(h, "offset")
     /\ CallIndex(h, "offset") < CallIndex(h, "limit")
     /\ CallIndex(h, "limit") < CallIndex(h, "where")
     /\ CallIndex(h, "where") < CallIndex(h, "attributes")
     /\ IndexOf(out.result.sql, "WHERE") > 0
     /\ IndexOf(out.result.sql, "ORDER") > 0
     /\ FirstOf(out.result.sql, PaginationWords) > 0
     /\ out.result.sql[2] # "*"

\* C7: getQuery on a SELECT-mode builder with an empty attribute array
\* throws EmptyProjection with a message naming the model and its quoted
\* alias; a statement has the projection * exactly when the builder has no
\* attributes.
C7_EmptyProjectionFails ==
  LET q == builders[out.recv]
  IN (out.op = "getQuery" /\ q.isSelect) =>
       /\ (IsSet(q.attributes) /\ attrHeap[q.attributes[1]] = <<>>) =>
            /\ ~out.result.ok
            /\ out.result.sql = <<>>
            /\ out.result.error = "EmptyProjection"
            /\ Count(out.result.message, "'" \o ModelDef(q.model).name \o "'") = 1
            /\ Count(out.result.message,
                     quoteIdentifier(dialect, ModelDef(q.model).name)) = 1
       /\ out.result.ok =>
            (out.result.sql[2] = "*" <=> ~IsSet(q.attributes))

\* select().attributes([]).getQuery() threw.
C7_Witness ==
  /\ out.op = "getQuery"
  /\ builders[out.recv].isSelect
  /\ builders[out.recv].attributes = Some(1)
  /\ attrHeap[1] = <<>>
  /\ out.result.error = "EmptyProjection"

\* C8: after where(null), getQuery throws; after where(undefined), getQuery
\* returns or throws what it does for the same chain without the where call,
\* a statement without WHERE when that chain renders one.
C8_NullWhereFails ==
  LET h == hist[1]
      w == CallIndex(h, "where")
  IN (out.op = "getQuery" /\ InEffect(h, "where")) =>
       /\ h[w].arg = NullRef =>
            /\ ~out.result.ok
            /\ out.result.sql = <<>>
       /\ h[w].arg = -1 =>
            /\ out.result = RenderedChain(Without(h, "where"), builders[1].model)
            /\ out.result.ok => Count(out.result.sql, "WHERE") = 0
            /\ (builders[1].isSelect /\ ~IsSet(builders[1].attributes)) =>
                 out.result.ok

\* select().where(null).getQuery() threw on the predicate.
C8_Witness ==
  /\ out.op = "getQuery"
  /\ hist[1] = <<[op |-> "new", arg |-> 0], [op |-> "select", arg |-> 0],
                 [op |-> "where", arg |-> NullRef]>>
  /\ out.result.error = "InvalidPredicate"

\* C9: a statement has ORDER BY <alias>.<primary key> exactly when the
\* builder has a limit or an offset (limit() or offset() was called since
\* select()); it then stands right after the WHERE fragment, or after the
\* alias when there is none, and right before the pagination clause.
C9_OrderByIffPaginated ==
  LET h == hist[1]
      q == builders[out.recv]
      m == ModelDef(q.model)
      sql == out.result.sql
      pF == IndexOf(sql, "FROM")
      pW == IndexOf(sql, "WHERE")
      pO == IndexOf(sql, "ORDER")
      pP == FirstOf(sql, PaginationWords)
  IN (out.op = "getQuery" /\ out.result.ok) =>
       /\ pO # 0 <=> (IsSet(q.limit) \/ IsSet(q.offset))
       /\ pO # 0 <=> (InEffect(h, "limit") \/ InEffect(h, "offset"))
       /\ pO # 0 =>
            /\ Count(sql, "ORDER") = 1
            /\ SubSeq(sql, pO, pO + 2)
                 = <<"ORDER", "BY", qualifiedColumn(dialect, m.name, m.primaryKey)>>
            /\ IF pW # 0
               THEN SubSeq(sql, pW, pO - 1) = whereClause(dialect, m, Some(whereHeap[q.where[1]]))
               ELSE pO = pF + 4
            /\ pP = pO + 3
       /\ pO = 0 => pP = 0

\* A statement with a WHERE fragment from a builder with an offset and no
\* limit: ORDER BY stands between the fragment and OFFSET.
C9_Witness ==
  /\ out.op = "getQuery"
  /\ out.result.ok
  /\ ~IsSet(builders[out.recv].limit)
  /\ IsSet(builders[out.recv].offset)
  /\ builders[out.recv].where = Some(2)
  /\ IndexOf(out.result.sql, "ORDER") > IndexOf(out.result.sql, "AND")
  /\ IndexOf(out.result.sql, "OFFSET") = IndexOf(out.result.sql, "ORDER") + 3

\* C10: on a dialect that paginates by OFFSET ... FETCH, the statement of a
\* builder with a limit ends with OFFSET <o> ROWS FETCH NEXT <limit> ROWS
\* ONLY; where <limit> is the argument of the limit() call, and <o> that of
\* the offset() call, 0 when offset() was not called since select().
C10_OffsetFetchWithLimit ==
  LET h == hist[1]
      q == builders[out.recv]
      sql == out.result.sql
      n == Len(sql)
  IN (/\ out.op = "getQuery"
      /\ out.result.ok
      /\ DialectDef(dialect).paginationStyle = "OFFSET_FETCH"
      /\ (IsSet(q.limit) \/ InEffect(h, "limit"))) =>
       /\ InEffect(h, "limit")
       /\ q.limit = Some(h[CallIndex(h, "limit")].arg)
       /\ q.offset = IF InEffect(h, "offset")
                     THEN Some(h[CallIndex(h, "offset")].arg) ELSE Undefined
       /\ n > 9
       /\ SubSeq(sql, n - 8, n)
            = <<"OFFSET", ToString(IF IsSet(q.offset) THEN q.offset[1] ELSE 0),
                "ROWS", "FETCH", "NEXT", ToString(q.limit[1]), "ROWS", "ONLY", ";">>
       /\ Count(sql, "OFFSET") = 1

\* select().limit(10).getQuery() of the User model on mssql.
C10_Witness ==
  /\ out.op = "getQuery"
  /\ dialect = "mssql"
  /\ hist[1] = <<[op |-> "new", arg |-> 0], [op |-> "select", arg |-> 0],
                 [op |-> "limit", arg |-> 10]>>
  /\ out.result.sql
       = <<"SELECT", "*", "FROM", "[users]", "AS", "[User]", "ORDER", "BY",
           "[User].[id]", "OFFSET", "0", "ROWS", "FETCH", "NEXT", "10", "ROWS",
           "ONLY", ";">>

\* C11: on a dialect that paginates by LIMIT / OFFSET, a statement has
\* LIMIT <limit> exactly when the builder has a limit and OFFSET <offset>
\* exactly when it has an offset, each whether or not the other is there,
\* with the arguments of the last limit() and offset() calls, LIMIT before
\* OFFSET whichever was called first, and nothing after them but the
\* semicolon.
C11_LimitOffsetIndependent ==
  LET h == hist[1]
      q == builders[out.recv]
      sql == out.result.sql
      n == Len(sql)
      pL == IndexOf(sql, "LIMIT")
      pO == IndexOf(sql, "OFFSET")
  IN (/\ out.op = "getQuery"
      /\ out.result.ok
      /\ DialectDef(dialect).paginationStyle = "LIMIT_OFFSET") =>
       /\ IsSet(q.limit) <=> InEffect(h, "limit")
       /\ IsSet(q.offset) <=> InEffect(h, "offset")
       /\ Count(sql, "LIMIT") = (IF IsSet(q.limit) THEN 1 ELSE 0)
       /\ Count(sql, "OFFSET") = (IF IsSet(q.offset) THEN 1 ELSE 0)
       /\ IsSet(q.limit) => sql[pL + 1] = ToString(h[CallIndex(h, "limit")].arg)
       /\ IsSet(q.offset) => sql[pO + 1] = ToString(h[CallIndex(h, "offset")].arg)
       /\ (IsSet(q.limit) /\ IsSet(q.offset)) => (pO = pL + 2 /\ pO = n - 2)
       /\ (IsSet(q.limit) /\ ~IsSet(q.offset)) => pL = n - 2
       /\ (IsSet(q.offset) /\ ~IsSet(q.limit)) => pO = n - 2
       /\ Count(sql, "FETCH") = 0
       /\ Count(sql, "ROWS") = 0

\* select().offset(5).limit(10).getQuery() on postgres: offset() was called
\* first, LIMIT 10 stands before OFFSET 5.
C11_Witness ==
  /\ out.op = "getQuery"
  /\ dialect = "postgres"
  /\ hist[1] = <<[op |-> "new", arg |-> 0], [op |-> "select", arg |-> 0],
                 [op |-> "offset", arg |-> 5], [op |-> "limit", arg |-> 10]>>
  /\ out.result.ok
  /\ SubSeq(out.result.sql, Len(out.result.sql) - 4, Len(out.result.sql))
       = <<"LIMIT", "10", "OFFSET", "5", ";">>

\* ------------------------------------------------------------ rendered WHERE fragments
RECURSIVE LeafSeq(_)
RECURSIVE LeafSeqFrom(_, _)
\* The comparisons of a tree, left to right.
LeafSeq(t) == IF t.kind = "leaf" THEN <<t>> ELSE LeafSeqFrom(t.children, 1)

LeafSeqFrom(children, i) ==
  IF i > Len(children) THEN <<>>
  ELSE LeafSeq(children[i]) \o LeafSeqFrom(children, i + 1)

\* A combinator that is a child of a combinator of the other kind.
UnderOtherKind(t, parent) == t.kind # "leaf" /\ parent # "" /\ parent # t.kind

RECURSIVE Opening(_, _, _, _)
RECURSIVE OpeningFrom(_, _, _, _, _)
\* How many combinators under other-kind parents, in the tree t whose first
\* comparison is the first-th of the whole tree, begin with the k-th
\* comparison.
Opening(t, parent, first, k) ==
  IF t.kind = "leaf" THEN 0
  ELSE (IF UnderOtherKind(t, parent) /\ first = k THEN 1 ELSE 0)
       + OpeningFrom(t.kind, t.children, 1, first, k)

OpeningFrom(kind, children, i, first, k) ==
  IF i > Len(children) THEN 0
  ELSE Opening(children[i], kind, first, k)
       + OpeningFrom(kind, children, i + 1, first + Len(LeafSeq(children[i])), k)

RECURSIVE Closing(_, _, _, _)
RECURSIVE ClosingFrom(_, _, _, _, _)
\* How many of them end with the k-th comparison.
Closing(t, parent, first, k) ==
  IF t.kind = "leaf" THEN 0
  ELSE (IF UnderOtherKind(t, parent) /\ first + Len(LeafSeq(t)) - 1 = k
        THEN 1 ELSE 0)
       + ClosingFrom(t.kind, t.children, 1, first, k)

ClosingFrom(kind, children, i, first, k) ==
  IF i > Len(children) THEN 0
  ELSE Closing(children[i], kind, first, k)
       + ClosingFrom(kind, children, i + 1, first + Len(LeafSeq(children[i])), k)

\* The tokens of statement sql between WHERE and the semicolon.
Fragment(sql) == SubSeq(sql, IndexOf(sql, "WHERE") + 1, Len(sql) - 1)

\* The positions in f of the (qualified) columns of tree t.
ColumnPositions(f, t, alias) ==
  {p \in DOMAIN f :
     \E i \in DOMAIN LeafSeq(t) :
       f[p] = qualifiedColumn(dialect, alias, LeafSeq(t)[i].column)}

\* The k-th of a set of positions.
Kth(P, k) == CHOOSE p \in P : Cardinality({x \in P : x < p}) = k - 1

\* The number of tokens tok in f running up to position p - 1.
RunBefore(f, p, tok) ==
  CHOOSE m \in 0..(p - 1) :
    /\ \A i \in 1..m : f[p - i] = tok
    /\ (m = p - 1 \/ f[p - m - 1] # tok)

\* The number of tokens tok in f running from position p.
RunFrom(f, p, tok) ==
  CHOOSE m \in 0..(Len(f) - p + 1) :
    /\ \A i \in 0..(m - 1) : f[p + i] = tok
    /\ (p + m > Len(f) \/ f[p + m] # tok)

\* The position after the comparison that starts at p.
LeafEnd(f, p) ==
  IF \E q \in (p + 1)..Len(f) : f[q] \in Kinds \cup {")"}
  THEN CHOOSE q \in (p + 1)..Len(f) :
         /\ f[q] \in Kinds \cup {")"}
         /\ \A r \in (p + 1)..(q - 1) : f[r] \notin Kinds \cup {")"}
  ELSE Len(f) + 1

\* C12: in the WHERE fragment of the statement rendered for a where object,
\* the comparisons stand in the object's order; before the k-th comparison
\* stand as many opening parentheses as combinators under a parent of the
\* other kind begin with it, after it as many closing ones as such
\* combinators end with it, and there are no other parentheses: a combinator
\* under the other kind is wrapped at any depth, the root and a combinator
\* under its own kind are not.
C12_MixedCombinatorsParenthesized ==
  LET h == hist[1]
      t == whereHeap[1]
      alias == ModelDef(builders[1].model).name
      f == Fragment(out.result.sql)
      P == ColumnPositions(f, t, alias)
      n == Len(LeafSeq(t))
  IN (out.op = "getQuery" /\ out.result.ok /\ InEffect(h, "where")) =>
       /\ Count(out.result.sql, "WHERE") = 1
       /\ Cardinality(P) = n
       /\ \A k \in 1..n :
            /\ f[Kth(P, k)] = qualifiedColumn(dialect, alias, LeafSeq(t)[k].column)
            /\ RunBefore(f, Kth(P, k), "(") = Opening(t, "", 1, k)
            /\ RunFrom(f, LeafEnd(f, Kth(P, k)), ")") = Closing(t, "", 1, k)
       /\ \A p \in DOMAIN f :
            /\ f[p] = "(" =>
                 \E k \in 1..n : p < Kth(P, k) /\ p >= Kth(P, k) - Opening(t, "", 1, k)
            /\ f[p] = ")" =>
                 \E k \in 1..n : /\ p >= LeafEnd(f, Kth(P, k))
                                  /\ p < LeafEnd(f, Kth(P, k)) + Closing(t, "", 1, k)

\* A statement for an object three combinators deep, OR in AND in OR: the
\* AND and the inner OR are wrapped, the root is not.
C12_Witness ==
  LET t == whereHeap[1]
  IN /\ out.op = "getQuery"
     /\ out.result.ok
     /\ InEffect(hist[1], "where")
     /\ t = Comb("OR", <<LikeLeaf,
                         Comb("AND", <<Comb("OR", <<LikeLeaf, Leaf("age", "EQ", NullV)>>),
                                       LikeLeaf>>)>>)
     /\ Count(out.result.sql, "(") = 2
     /\ RunBefore(Fragment(out.result.sql), 7, "(") = 2

\* C13: in the statement rendered for a where object, a comparison with a
\* null operand reads <column> IS NULL when it is an equality and
\* <column> IS NOT NULL when it is a not-equal; NULL stands after IS or
\* NOT only, so the text never holds = NULL.
C13_NullOperandRewritten ==
  LET h == hist[1]
      t == whereHeap[1]
      alias == ModelDef(builders[1].model).name
      f == Fragment(out.result.sql)
      P == ColumnPositions(f, t, alias)
      n == Len(LeafSeq(t))
  IN (out.op = "getQuery" /\ out.result.ok /\ InEffect(h, "where")) =>
       /\ Count(out.result.sql, "WHERE") = 1
       /\ Cardinality(P) = n
       /\ \A k \in 1..n :
            LET l == LeafSeq(t)[k]
                p == Kth(P, k)
                column == qualifiedColumn(dialect, alias, l.column)
            IN /\ (l.operand.t = "null" /\ l.op = "EQ") =>
                    /\ LeafEnd(f, p) = p + 3
                    /\ SubSeq(f, p, p + 2) = <<column, "IS", "NULL">>
               /\ (l.operand.t = "null" /\ l.op = "NE") =>
                    /\ LeafEnd(f, p) = p + 4
                    /\ SubSeq(f, p, p + 3) = <<column, "IS", "NOT", "NULL">>
               /\ l.operand.t # "null" => Count(SubSeq(f, p, LeafEnd(f, p) - 1), "NULL") = 0
       /\ \A p \in DOMAIN f :
            f[p] = "NULL" => (p > 1 /\ f[p - 1] \in {"IS", "NOT"})
       /\ \A p \in DOMAIN out.result.sql :
            out.result.sql[p] \in {"=", "<>"} =>
              out.result.sql[p + 1] # "NULL"

\* select().where({ age: null }).getQuery() of the User model on postgres.
C13_Witness ==
  /\ out.op = "getQuery"
  /\ dialect = "postgres"
  /\ whereHeap[1] = Leaf("age", "EQ", NullV)
  /\ out.result.sql
       = <<"SELECT", "*", "FROM", "\"users\"", "AS", "\"User\"", "WHERE",
           "\"User\".\"age\"", "IS", "NULL", ";">>

\* C14: the statement rendered after attributes() with a non-empty array has,
\* between SELECT and FROM, exactly the array's columns, each quoted, in the
\* array's order, separated by commas: none added, dropped or moved.
C14_ProjectionExact ==
  LET h == hist[1]
      sql == out.result.sql
      cols == attrHeap[1]
  IN (/\ out.op = "getQuery"
      /\ out.result.ok
      /\ InEffect(h, "attributes")) =>
       /\ Len(cols) > 0
       /\ IndexOf(sql, "FROM") = 2 * Len(cols) + 1
       /\ \A i \in 1..Len(cols) :
            /\ sql[2 * i] = quoteIdentifier(dialect, cols[i])
            /\ i < Len(cols) => sql[2 * i + 1] = ","
       /\ Count(SubSeq(sql, 1, 2 * Len(cols)), "*") = 0

\* attributes(['email', 'age', 'name']), then where() and limit(), rendered
\* on mssql: [email], [age], [name], in the order given.
C14_Witness ==
  /\ out.op = "getQuery"
  /\ dialect = "mssql"
  /\ attrHeap[1] = <<"email", "age", "name">>
  /\ InEffect(hist[1], "attributes")
  /\ InEffect(hist[1], "limit")
  /\ CallIndex(hist[1], "attributes") < CallIndex(hist[1], "limit")
  /\ builders[1].where = Some(1)
  /\ out.result.ok
  /\ SubSeq(out.result.sql, 1, 7)
       = <<"SELECT", "[email]", ",", "[age]", ",", "[name]", "FROM">>

\* ------------------------------------------------------------ execute
\* C15: an execute() call has rendered its builder with getQuery and, when
\* that returned a statement, called sequelize.queryRaw exactly once, with
\* exactly that statement; its promise settles when and as the promise of
\* queryRaw does, with the same rows.
C15_ExecutePassesThrough ==
  exec.state # "none" =>
    /\ exec.rendered = Rendered(1)
    /\ exec.rendered = RenderedChain(hist[1], builders[1].model)
    /\ exec.rendered.ok =>
         /\ exec.calledGenerator
         /\ exec.queryRaw = <<Rendered(1).sql>>
         /\ exec.state = (IF exec.response = NoResponse THEN "pending"
                          ELSE exec.response.state)
         /\ exec.value = exec.response.value
    /\ exec.response # NoResponse =>
         /\ exec.rendered.ok
         /\ exec.response \in QueryRawOutcomes

\* select().attributes(['name']).where({ active: true }).execute() on
\* postgres returned the rows of queryRaw.
C15_Witness ==
  /\ exec.state = "fulfilled"
  /\ exec.value = "rows"
  /\ dialect = "postgres"
  /\ hist[1] = <<[op |-> "new", arg |-> 0], [op |-> "select", arg |-> 0],
                 [op |-> "attributes", arg |-> 2], [op |-> "where", arg |-> 1]>>
  /\ exec.queryRaw
       = << <<"SELECT", "\"name\"", "FROM", "\"users\"", "AS", "\"User\"",
              "WHERE", "\"User\".\"active\"", "=", "true", ";">> >>

\* C16: an execute() call that failed either failed to render - the builder
\* is in UNSET mode, has an empty attribute array or a null where - and then
\* never called sequelize.queryRaw and fails with the error of getQuery; or
\* called queryRaw once and fails with the error queryRaw failed with.
C16_ExecuteFailuresPassThrough ==
  /\ exec.state = "rejected" =>
       IF exec.response = NoResponse
       THEN /\ ~exec.rendered.ok
            /\ exec.queryRaw = <<>>
            /\ exec.value = Rendered(1).error
            /\ exec.value \in {"NotInSelectMode", "EmptyProjection", "InvalidPredicate"}
       ELSE /\ exec.rendered.ok
            /\ Len(exec.queryRaw) = 1
            /\ exec.response.state = "rejected"
            /\ exec.value = exec.response.value
  /\ (exec.state # "none" /\ ~Rendered(1).ok) =>
       /\ exec.state = "rejected"
       /\ exec.queryRaw = <<>>
       /\ exec.response = NoResponse
  /\ (exec.state # "none" /\ exec.response.state = "rejected") =>
       exec.state = "rejected"

\* select().limit(10).execute() failed with the error of queryRaw, which was
\* called once.
C16_Witness ==
  /\ exec.state = "rejected"
  /\ exec.response = [state |-> "rejected", value |-> "DatabaseError"]
  /\ exec.value = "DatabaseError"
  /\ Len(exec.queryRaw) = 1
  /\ hist[1] = <<[op |-> "new", arg |-> 0], [op |-> "select", arg |-> 0],
                 [op |-> "limit", arg |-> 10]>>

\* ------------------------------------------------------------ failures
ErrorKinds == {"NotInSelectMode", "EmptyProjection", "InvalidPredicate"}

\* One complete statement and no error, or an error and no text.
AllOrNothing(result) ==
  IF result.ok
  THEN /\ result.error = ""
       /\ result.message = <<>>
       /\ ClausesInOrder(result.sql)
  ELSE /\ result.error \in ErrorKinds
       /\ result.message # <<>>
       /\ result.sql = <<>>

\* C17: a getQuery call returns one complete statement or throws an error
\* and returns no text, and leaves the fields of its builder as they were;
\* so after any step the builder renders what the chainable calls that led
\* to it render on a new builder, whether or not getQuery calls, failed ones
\* included, were made in between.
C17_AllOrNothing ==
  [][/\ out'.op = "getQuery" =>
          /\ AllOrNothing(out'.result)
          /\ builders' = builders
     /\ getQuery(builders', 1, dialect, attrHeap, whereHeap).result
          = RenderedChain(hist'[1], builders'[1].model)]_vars

\* select().attributes([]).getQuery() threw; attributes(['name']) was called
\* on the same builder and getQuery then returned SELECT "name" ...
C17_Witness ==
  /\ seen.recv = 1
  /\ seen.result.error = "EmptyProjection"
  /\ out.op = "getQuery"
  /\ out.result.ok
  /\ hist[1] = <<[op |-> "new", arg |-> 0], [op |-> "select", arg |-> 0],
                 [op |-> "attributes", arg |-> 2]>>
  /\ out.result.sql[2] = quoteIdentifier(dialect, "name")
  /\ out.result.sql[3] = "FROM"

\* ------------------------------------------------------------ interleaved chains
\* C18: whatever the order in which the chains derived from one base take
\* their steps, every chain's builder renders, and every getQuery call
\* returned, what the chain's own calls render when they are made alone, in
\* their order, on a new builder of the model.
C18_ChainsIndependent ==
  /\ \A k \in DOMAIN builders :
       Rendered(k) = RenderedChain(hist[k], builders[k].model)
  /\ out.op = "getQuery" =>
       out.result = RenderedChain(hist[out.recv], builders[out.recv].model)

\* Two chains from the base select().attributes(['name', 'email']), one
\* with where({ active: true }) then limit(10), one with limit(10) then
\* where({ active: true, age: 25 }); the first was rendered last and differs
\* from the second.
C18_Witness ==
  /\ Len(builders) = 3
  /\ hist[1] = <<[op |-> "new", arg |-> 0], [op |-> "select", arg |-> 0],
                 [op |-> "attributes", arg |-> 3]>>
  /\ hist[2] = hist[1] \o <<[op |-> "where", arg |-> 1], [op |-> "limit", arg |-> 10]>>
  /\ hist[3] = hist[1] \o <<[op |-> "limit", arg |-> 10], [op |-> "where", arg |-> 2]>>
  /\ out.op = "getQuery"
  /\ out.recv = 2
  /\ out.result.ok
  /\ Count(out.result.sql, "AND") = 0
  /\ Count(Rendered(3).sql, "AND") = 1
  /\ Rendered(1).sql
       = <<"SELECT", quoteIdentifier(dialect, "name"), ",",
           quoteIdentifier(dialect, "email"), "FROM",
           quoteIdentifier(dialect, "users"), "AS",
           quoteIdentifier(dialect, "User"), ";">>

\* ------------------------------------------------------------ shared arguments
\* Builder k is the instance that attributes() or where() (op) returned
\* when it was given reference r.
Given(k, op, r) ==
  LET h == hist[k]
  IN h[Len(h)].op = op /\ h[Len(h)].arg = r

\* C19: no two builders share a mutable field: when an attribute array or a
\* where object is changed in place, the builders other than the one that
\* was given it render what they rendered before the change.
C19_NoSharedMutableField ==
  [][LET touchedAttributes == {r \in DOMAIN attrHeap : attrHeap'[r] # attrHeap[r]}
         touchedWhere == {r \in DOMAIN whereHeap : whereHeap'[r] # whereHeap[r]}
     IN \A k \in DOMAIN builders :
          (/\ touchedAttributes \cup touchedWhere # {}
           /\ \A r \in touchedAttributes : ~Given(k, "attributes", r)
           /\ \A r \in touchedWhere : ~Given(k, "where", r)) =>
            getQuery(builders', k, dialect, attrHeap', whereHeap').result
              = Rendered(k)]_vars

\* ------------------------------------------------------------ pagination values
\* C20: in every builder that limit() and offset() calls with any numbers
\* lead to, the limit and the offset are each absent or a non-negative
\* integer.
C20_PaginationNonNegative ==
  \A k \in DOMAIN builders :
    /\ IsSet(builders[k].limit) => builders[k].limit[1] \in Nat
    /\ IsSet(builders[k].offset) => builders[k].offset[1] \in Nat

\* ------------------------------------------------------------ boolean literals
\* The dialects with a native boolean type.
NativeBoolean == {"postgres"}

\* The dialect whose descriptor differs from d's in the boolean literals
\* alone; mssql has none.
Counterpart(d) == IF d = "postgres" THEN "booleanAsInteger" ELSE "postgres"

\* C21: in the statement rendered for a where object, a boolean operand
\* reads true / false on a dialect with a native boolean type and 1 / 0 on
\* a dialect without one, for true and for false; and the statement a
\* dialect of the other kind renders for the same builder differs from it at
\* the boolean operands only.
C21_BooleanLiteralByDialect ==
  LET h == hist[1]
      t == whereHeap[1]
      alias == ModelDef(builders[1].model).name
      sql == out.result.sql
      f == Fragment(sql)
      P == ColumnPositions(f, t, alias)
      n == Len(LeafSeq(t))
      Operands == {IndexOf(sql, "WHERE") + Kth(P, k) + 2 :
                     k \in {i \in 1..n : LeafSeq(t)[i].operand.t = "bool"}}
      twin == getQuery(builders, 1, Counterpart(dialect), attrHeap, whereHeap).result
  IN (out.op = "getQuery" /\ out.result.ok /\ InEffect(h, "where")) =>
       /\ Cardinality(P) = n
       /\ \A k \in 1..n :
            LET l == LeafSeq(t)[k]
                p == Kth(P, k)
            IN l.operand.t = "bool" =>
                 /\ f[p + 1] = operatorSql(l.op)
                 /\ f[p + 2] = (IF dialect \in NativeBoolean
                                THEN (IF l.operand.b THEN "true" ELSE "false")
                                ELSE (IF l.operand.b THEN "1" ELSE "0"))
       /\ dialect \in {"postgres", "booleanAsInteger"} =>
            /\ twin.ok
            /\ Len(twin.sql) = Len(sql)
            /\ \A p \in DOMAIN sql : sql[p] # twin.sql[p] <=> p \in Operands

\* The specification's second example: select().where({ active: true,
\* age: 25 }).getQuery() of the User model on the boolean-as-integer dialect.
C21_Witness ==
  /\ out.op = "getQuery"
  /\ dialect = "booleanAsInteger"
  /\ whereHeap[1] = Comb("AND", <<Leaf("active", "EQ", BoolV(TRUE)),
                                  Leaf("age", "EQ", NumV(25))>>)
  /\ out.result.sql
       = <<"SELECT", "*", "FROM", "\"users\"", "AS", "\"User\"", "WHERE",
           "\"User\".\"active\"", "=", "1", "AND", "\"User\".\"age\"", "=", "25",
           ";">>

\* ------------------------------------------------------------ setters
\* The field of the builder a setter assigns.
FieldOf(q, op) ==
  CASE op = "attributes" -> q.attributes
    [] op = "where" -> q.where
    [] op = "limit" -> q.limit
    [] OTHER -> q.offset

\* The argument of the call the history h ends with, as the field holds it.
LastArgument(h) ==
  LET c == h[Len(h)]
  IN IF c.op = "where" /\ c.arg = -1 THEN Undefined ELSE Some(c.arg)

\* C22: the builder a setter returns equals its receiver in the model, the
\* mode and the fields of the three other setters, and holds the argument in
\* the setter's own field: attributes() keeps where, limit, offset; where()
\* keeps attributes, limit, offset; limit() keeps attributes, where, offset;
\* offset() keeps attributes, where, limit.
C22_SetterChangesOwnFieldOnly ==
  [][out'.op \in Setters =>
       LET recv == builders[1]
           ret == builders'[1]
       IN /\ ret.model = recv.model
          /\ ret.isSelect = recv.isSelect
          /\ \A op \in Setters \ {out'.op} : FieldOf(ret, op) = FieldOf(recv, op)
          /\ FieldOf(ret, out'.op) = LastArgument(hist'[1])]_vars

\* offset(5) returned a builder that holds the attributes, the where and
\* the limit its receiver was given, in SELECT mode.
C22_Witness ==
  /\ out.op = "offset"
  /\ hist[1][Len(hist[1])].op = "offset"
  /\ \A op \in Setters : HasCall(hist[1], op)
  /\ builders[1].isSelect
  /\ builders[1].attributes = Some(3)
  /\ builders[1].where = Some(2)
  /\ builders[1].limit = Some(10)
  /\ builders[1].offset = Some(5)

\* C23: a builder is in SELECT mode exactly when a select() call is among
\* the calls that led to it: attributes, where, limit and offset calls, in
\* any number and order, keep the mode of a select() result and keep a
\* directly constructed builder in UNSET mode, and getQuery throws
\* NotInSelectMode on exactly the builders no select() call led to.
C23_ModeSetOnlyBySelect ==
  /\ builders[1].isSelect <=> HasCall(hist[1], "select")
  /\ out.op = "getQuery" =>
       /\ out.result.error = "NotInSelectMode" <=> ~HasCall(hist[1], "select")
       /\ out.calledGenerator <=> HasCall(hist[1], "select")

\* getQuery threw on new QueryBuilder(m) with attributes, where, limit and
\* offset called on it and select() never.
C23_Witness ==
  /\ out.op = "getQuery"
  /\ Len(hist[1]) = 5
  /\ \A op \in Setters : HasCall(hist[1], op)
  /\ ~HasCall(hist[1], "select")
  /\ ~builders[1].isSelect
  /\ IsSet(builders[1].limit)
  /\ ~out.result.ok
  /\ out.result.error = "NotInSelectMode"

\* ------------------------------------------------------------ a setter called twice
\* A caller that has built a builder b calls a setter on it twice, and once:
\*   x = b.where(c1);  x = x.where(c2);  z = b.where(c2);
\* builders[1] is b, builders[2] is x, builders[3] is z; hist[i] holds every
\* call that led to builders[i].
Optional(S) == {<<>>} \cup {<<c>> : c \in S}

\* The calls of a setter a caller makes: two arguments at least for each.
SetterCalls(op) ==
  CASE op = "attributes" ->
         {[op |-> op, arg |-> ArgCode(a)] : a \in AttributesArgs}
    [] op = "where" -> {[op |-> op, arg |-> ArgCode(w)] : w \in WhereArgs}
    [] op = "limit" -> {[op |-> op, arg |-> n] : n \in {10, 20}}
    [] OTHER -> {[op |-> op, arg |-> n] : n \in {5, 15}}

\* The chains b comes from: new QueryBuilder(m), then select() or not, then
\* each setter once or not.
BaseChains ==
  {<<[op |-> "new", arg |-> 0]>> \o s \o a \o w \o l \o o :
     s \in Optional({[op |-> "select", arg |-> 0]}),
     a \in Optional(SetterCalls("attributes")),
     w \in Optional(SetterCalls("where")),
     l \in Optional(SetterCalls("limit")),
     o \in Optional(SetterCalls("offset"))}

InitTwice ==
  /\ \E m \in ModelNames, h \in BaseChains :
       /\ builders = <<Replay(h, 1, NewBuilder(m))>>
       /\ hist = <<h>>
  /\ attrHeap = AttrArrays
  /\ whereHeap = WhereObjects
  /\ dialect \in DialectNames
  /\ out = Call("new", 0, 1, NoResult, FALSE)
  /\ seen = NoneSeen
  /\ exec = NotExecuting

\* The setter call c on builder b.
CallSetter(bs, b, c) ==
  CASE c.op = "attributes" -> attributes(bs, b, Some(c.arg))
    [] c.op = "where" ->
         where(bs, b, IF c.arg = -1 THEN Undefined ELSE Some(c.arg))
    [] c.op = "limit" -> limit(bs, b, c.arg)
    [] OTHER -> offset(bs, b, c.arg)

\* x = b.<setter>(c1)
SetOnce ==
  /\ Len(builders) = 1
  /\ \E op \in Setters : \E c \in SetterCalls(op) :
       LET r == CallSetter(builders, 1, c)
       IN /\ builders' = r.builders
          /\ hist' = Append(hist, Append(hist[1], c))
          /\ out' = Call(c.op, 1, r.ret, NoResult, FALSE)
  /\ UNCHANGED <<attrHeap, whereHeap, dialect, seen, exec>>

\* x = x.<the same setter>(c2)
SetAgain ==
  /\ Len(builders) = 2
  /\ Len(hist[2]) = Len(hist[1]) + 1
  /\ \E c \in SetterCalls(hist[2][Len(hist[2])].op) :
       LET r == CallSetter(builders, 2, c)
       IN /\ builders' = <<r.builders[1], r.builders[r.ret]>>
          /\ hist' = [hist EXCEPT ![2] = Append(@, c)]
          /\ out' = Call(c.op, 2, 2, NoResult, FALSE)
  /\ UNCHANGED <<attrHeap, whereHeap, dialect, seen, exec>>

\* z = b.<the same setter>(c2)
SetDirect ==
  /\ Len(builders) = 2
  /\ Len(hist[2]) = Len(hist[1]) + 2
  /\ LET c == hist[2][Len(hist[2])]
         r == CallSetter(builders, 1, c)
     IN /\ builders' = r.builders
        /\ hist' = Append(hist, Append(hist[1], c))
        /\ out' = Call(c.op, 1, r.ret, NoResult, FALSE)
  /\ UNCHANGED <<attrHeap, whereHeap, dialect, seen, exec>>

NextTwice ==
  \/ SetOnce
  \/ SetAgain
  \/ SetDirect

SpecTwice == InitTwice /\ [][NextTwice]_vars

\* C24: a builder reached from b by a setter called twice, with c1 and then
\* c2, has the fields of, and renders what, the builder reached from b by
\* that setter called once with c2 renders - the same text or the same
\* error; after where(c1).where(c2) the statement has the ANDs of c2 alone.
C24_SetterReplaces ==
  \A i \in DOMAIN builders, j \in DOMAIN builders :
    LET n == Len(hist[1])
    IN (/\ Len(hist[i]) = n + 2
        /\ Len(hist[j]) = n + 1
        /\ SubSeq(hist[i], 1, n) = hist[1]
        /\ SubSeq(hist[j], 1, n) = hist[1]
        /\ hist[i][n + 1].op \in Setters
        /\ hist[i][n + 2].op = hist[i][n + 1].op
        /\ hist[j][n + 1] = hist[i][n + 2]) =>
         /\ builders[i] = builders[j]
         /\ Rendered(i) = Rendered(j)
         /\ (hist[i][n + 2].op = "where" /\ hist[i][n + 2].arg > 0 /\ Rendered(i).ok) =>
              Count(Rendered(i).sql, "AND")
                = Count(renderPredicate(dialect, ModelDef(builders[i].model).name,
                                        whereHeap[hist[i][n + 2].arg], ""),
                        "AND")

\* b = select().limit(10);
\* b.where({ active: true, age: 25 }).where({ active: true }) and
\* b.where({ active: true }) render one statement, without AND.
C24_Witness ==
  /\ Len(builders) = 3
  /\ hist[1] = <<[op |-> "new", arg |-> 0], [op |-> "select", arg |-> 0],
                 [op |-> "limit", arg |-> 10]>>
  /\ SubSeq(hist[2], 4, 5) = <<[op |-> "where", arg |-> 2], [op |-> "where", arg |-> 1]>>
  /\ hist[3][4] = [op |-> "where", arg |-> 1]
  /\ Rendered(2).ok
  /\ Rendered(2) = Rendered(3)
  /\ Count(Rendered(2).sql, "WHERE") = 1
  /\ Count(Rendered(2).sql, "AND") = 0

\* ------------------------------------------------------------ call orders
\* The calls of history h from the i-th on, in the order p.
Reordered(h, i, p) == [k \in 1..(Len(h) - i + 1) |-> h[i - 1 + p[k]]]

\* C25: the builder a chain has reached from b - the new builder, or the
\* result of the chain's last select() - has the fields of, and renders what,
\* the builder every chain reaches that applies to b the same final
\* attributes, where, limit and offset arguments in another call order: the
\* same text, or the same error.
C25_SettersCommute ==
  LET h == hist[1]
      s == IF CallIndex(h, "select") = 0 THEN 1 ELSE CallIndex(h, "select")
      b == Replay(SubSeq(h, 1, s), 1, NewBuilder(builders[1].model))
      n == Len(h) - s
  IN n >= 2 =>
       \A p \in Permutations(1..n) :
         LET q == Replay(Reordered(h, s + 1, p), 1, b)
         IN /\ q = builders[1]
            /\ getQuery(<<q>>, 1, dialect, attrHeap, whereHeap).result = Rendered(1)
            /\ out.op = "getQuery" =>
                 getQuery(<<q>>, 1, dialect, attrHeap, whereHeap).result = out.result

\* select().offset(5).where({ active: true, age: 25 }).limit(10)
\* .attributes(['name', 'email']) rendered the statement of
\* select().attributes(...).where(...).limit(10).offset(5).
C25_Witness ==
  /\ out.op = "getQuery"
  /\ out.result.ok
  /\ hist[1] = <<[op |-> "new", arg |-> 0], [op |-> "select", arg |-> 0],
                 [op |-> "offset", arg |-> 5], [op |-> "where", arg |-> 2],
                 [op |-> "limit", arg |-> 10], [op |-> "attributes", arg |-> 3]>>
  /\ out.result
       = RenderedChain(<<[op |-> "new", arg |-> 0], [op |-> "select", arg |-> 0],
                         [op |-> "attributes", arg |-> 3], [op |-> "where", arg |-> 2],
                         [op |-> "limit", arg |-> 10], [op |-> "offset", arg |-> 5]>>,
                       builders[1].model)

====
